---- MODULE Spec2Model ----
(***************************************************************************)
(* tmenu: the .toon menu parser (App::from_toon), the navigation state of  *)
(* App (next / previous / enter / back), the external command runner       *)
(* (App::execute_external_command) and the event loop (main / run_app).    *)
(*                                                                         *)
(* Strings are sequences of one-character strings, so that trimming,       *)
(* splitting and quote stripping are computed character by character.      *)
(* The menu texts are ASCII, where a byte length equals a character count. *)
(* Option<T> is a sequence of length at most one: None is << >> and        *)
(* Some(x) is <<x>>.                                                       *)
(***************************************************************************)
EXTENDS Integers, Sequences, FiniteSets, TLC

\* usize arithmetic is modulo 2^UsizeBits.  The width is scaled down from the
\* target's pointer width; the model only relies on 0 - 1 wrapping to the
\* largest value, which is larger than every list length.
UsizeBits == 8

None == << >>

Some(x) == <<x>>

(***************************************************************************)
(* Menu texts (file contents) the program is started on.                   *)
(***************************************************************************)
\* 'main:\n  "Tools":\n    "Build"[1]: echo build\n    "Clean"[2]: echo clean\n  "Quit"[0]: exit\n'
ExampleToon ==
  <<"m","a","i","n",":","\n"," "," ","\"","T","o","o","l","s","\"",":","\n"," "," "," "," ","\"","B","u","i","l","d","\"","[","1","]",":"," ","e","c","h","o"," ","b","u","i","l","d","\n"," "," "," "," ","\"","C","l","e","a","n","\"","[","2","]",":"," ","e","c","h","o"," ","c","l","e","a","n","\n"," "," ","\"","Q","u","i","t","\"","[","0","]",":"," ","e","x","i","t","\n">>

\* ''
EmptyToon ==
  << >>

\* 'm:\n  "Run"[1]: ls\n  "E":\n'
EmptySubToon ==
  <<"m",":","\n"," "," ","\"","R","u","n","\"","[","1","]",":"," ","l","s","\n"," "," ","\"","E","\"",":","\n">>

\* 'm:\n  "A":\n    "x"[1]: a\n  "B":\n    "y"[2]: b\n'
TwoSubsToon ==
  <<"m",":","\n"," "," ","\"","A","\"",":","\n"," "," "," "," ","\"","x","\"","[","1","]",":"," ","a","\n"," "," ","\"","B","\"",":","\n"," "," "," "," ","\"","y","\"","[","2","]",":"," ","b","\n">>

\* '"k"[1]: e]: f\n'
SplitToon ==
  <<"\"","k","\"","[","1","]",":"," ","e","]",":"," ","f","\n">>

\* '    "d"[1]: x\n  "S":\n  "r"[2]: y\n    "c"[3]: exit\n'
IndentToon ==
  <<" "," "," "," ","\"","d","\"","[","1","]",":"," ","x","\n"," "," ","\"","S","\"",":","\n"," "," ","\"","r","\"","[","2","]",":"," ","y","\n"," "," "," "," ","\"","c","\"","[","3","]",":"," ","e","x","i","t","\n">>

\* '"t":\r\nu:\r\n\r\n "q"[0]: "exit"\r\n "g"[1]: "ls"'
TitlesToon ==
  <<"\"","t","\"",":","\r","\n","u",":","\r","\n","\r","\n"," ","\"","q","\"","[","0","]",":"," ","\"","e","x","i","t","\"","\r","\n"," ","\"","g","\"","[","1","]",":"," ","\"","l","s","\"">>

\* 'junk\n  "a"[1]: ls\n]: x\n  = y\n'
MalformedToon ==
  <<"j","u","n","k","\n"," "," ","\"","a","\"","[","1","]",":"," ","l","s","\n","]",":"," ","x","\n"," "," ","="," ","y","\n">>

\* 'a:\n  "S":\n    "c"[1]: ls\nb:\n"z"[2]:\n    "d"[3]: pwd\n'
LaterTitleToon ==
  <<"a",":","\n"," "," ","\"","S","\"",":","\n"," "," "," "," ","\"","c","\"","[","1","]",":"," ","l","s","\n","b",":","\n","\"","z","\"","[","2","]",":","\n"," "," "," "," ","\"","d","\"","[","3","]",":"," ","p","w","d","\n">>

(***************************************************************************)
(* str helpers of the standard library, as from_toon and enter use them.   *)
(***************************************************************************)
White_Space == {" ", "\t", "\n", "\r", "\f"}

SetMin(S) == CHOOSE x \in S : \A y \in S : x <= y

SetMax(S) == CHOOSE x \in S : \A y \in S : x >= y

\* str::trim_start
trim_start(s) ==
  LET keep == {i \in 1..Len(s) : s[i] \notin White_Space}
  IN  IF keep = {} THEN << >> ELSE SubSeq(s, SetMin(keep), Len(s))

\* str::trim
trim(s) ==
  LET keep == {i \in 1..Len(s) : s[i] \notin White_Space}
  IN  IF keep = {} THEN << >> ELSE SubSeq(s, SetMin(keep), SetMax(keep))

\* str::trim_matches(c): strips every leading and trailing c
trim_matches(s, c) ==
  LET keep == {i \in 1..Len(s) : s[i] # c}
  IN  IF keep = {} THEN << >> ELSE SubSeq(s, SetMin(keep), SetMax(keep))

\* str::ends_with(c)
ends_with(s, c) == Len(s) > 0 /\ s[Len(s)] = c

\* str::contains(c)
contains(s, c) == \E i \in 1..Len(s) : s[i] = c

\* start positions of the two-character pattern p in s
find2(s, p) == {i \in 1..(Len(s) - 1) : s[i] = p[1] /\ s[i + 1] = p[2]}

\* str::split(p) for a two-character pattern p, as the Vec of its pieces
RECURSIVE split2(_, _)
split2(s, p) ==
  LET at == find2(s, p)
  IN  IF at = {} THEN <<s>>
      ELSE LET i == SetMin(at)
           IN  <<SubSeq(s, 1, i - 1)>> \o split2(SubSeq(s, i + 2, Len(s)), p)

\* str::split(c).next().unwrap(): the text before the first c
split_first(s, c) ==
  LET at == {i \in 1..Len(s) : s[i] = c}
  IN  IF at = {} THEN s ELSE SubSeq(s, 1, SetMin(at) - 1)

\* str::lines(): pieces between "\n"; a final empty piece is not a line and
\* the "\r" of a "\r\n" line ending is removed
RECURSIVE lines(_)
lines(content) ==
  LET strip(l) == IF ends_with(l, "\r") THEN SubSeq(l, 1, Len(l) - 1) ELSE l
      at == {i \in 1..Len(content) : content[i] = "\n"}
  IN  IF content = << >> THEN << >>
      ELSE IF at = {} THEN <<content>>
      ELSE LET i == SetMin(at)
           IN  <<strip(SubSeq(content, 1, i - 1))>>
                 \o lines(SubSeq(content, i + 1, Len(content)))

(***************************************************************************)
(* Menu items.  MenuAction is a tagged union; an item is the record        *)
(* [label, kind, cmd, sub] where cmd is the command of an Execute item and *)
(* sub the item list of an OpenSubmenu item (the other field is empty).    *)
(***************************************************************************)
Execute(label, cmd) ==
  [label |-> label, kind |-> "Execute", cmd |-> cmd, sub |-> << >>]

OpenSubmenu(label, items) ==
  [label |-> label, kind |-> "OpenSubmenu", cmd |-> << >>, sub |-> items]

DefaultTitle ==
  <<"M","e","n","u"," ","P","r","i","n","c","i","p","a","l">>

\* the locals of from_toon before the first line
ParseInit ==
  [root_items |-> << >>, current_submenu |-> None,
   main_title |-> DefaultTitle, first_key_found |-> FALSE]

\* the item an item line stands for
parse_item(trimmed) ==
  LET parts == split2(trimmed, <<"]", ":">>)
      label == trim_matches(split_first(parts[1], "["), "\"")
      action_str == trim(IF Len(parts) >= 2 THEN parts[2] ELSE << >>)
  IN  Execute(label, action_str)

\* parse_line sending items indented by 2 to the submenu
parse_line_indent_two(st, line) ==
  LET indent == Len(line) - Len(trim_start(line))
      trimmed == trim(line)
      name == trim_matches(trim_matches(trimmed, ":"), "\"")
  IN  IF trimmed = << >> THEN st
      ELSE IF ends_with(trimmed, ":") /\ indent = 0 THEN
        IF ~st.first_key_found
          THEN [st EXCEPT !.main_title = name, !.first_key_found = TRUE]
          ELSE st
      ELSE IF ends_with(trimmed, ":") /\ indent > 0 THEN
        [st EXCEPT !.current_submenu = Some([name |-> name, items |-> << >>])]
      ELSE IF contains(trimmed, "[") THEN
        IF indent >= 2 THEN
          IF st.current_submenu # None
            THEN [st EXCEPT !.current_submenu[1].items =
                               Append(@, parse_item(trimmed))]
            ELSE st
        ELSE [st EXCEPT !.root_items = Append(@, parse_item(trimmed))]
      ELSE st

\* parse_line letting every top-level key set the title
parse_line_last_title(st, line) ==
  LET indent == Len(line) - Len(trim_start(line))
      trimmed == trim(line)
      name == trim_matches(trim_matches(trimmed, ":"), "\"")
  IN  IF trimmed = << >> THEN st
      ELSE IF ends_with(trimmed, ":") /\ indent = 0 THEN
        [st EXCEPT !.main_title = name, !.first_key_found = TRUE]
      ELSE IF ends_with(trimmed, ":") /\ indent > 0 THEN
        [st EXCEPT !.current_submenu = Some([name |-> name, items |-> << >>])]
      ELSE IF contains(trimmed, "[") THEN
        IF indent > 2 THEN
          IF st.current_submenu # None
            THEN [st EXCEPT !.current_submenu[1].items =
                               Append(@, parse_item(trimmed))]
            ELSE st
        ELSE [st EXCEPT !.root_items = Append(@, parse_item(trimmed))]
      ELSE st

\* one iteration of the loop over the lines
parse_line(st, line) ==
  LET indent == Len(line) - Len(trim_start(line))
      trimmed == trim(line)
      name == trim_matches(trim_matches(trimmed, ":"), "\"")
  IN  IF trimmed = << >> THEN st
      ELSE IF ends_with(trimmed, ":") /\ indent = 0 THEN
        IF ~st.first_key_found
          THEN [st EXCEPT !.main_title = name, !.first_key_found = TRUE]
          ELSE st
      ELSE IF ends_with(trimmed, ":") /\ indent > 0 THEN
        [st EXCEPT !.current_submenu = Some([name |-> name, items |-> << >>])]
      ELSE IF contains(trimmed, "[") THEN
        IF indent > 2 THEN
          IF st.current_submenu # None
            THEN [st EXCEPT !.current_submenu[1].items =
                               Append(@, parse_item(trimmed))]
            ELSE st
        ELSE [st EXCEPT !.root_items = Append(@, parse_item(trimmed))]
      ELSE st

RECURSIVE parse_lines(_, _)
parse_lines(st, ls) ==
  IF ls = << >> THEN st
  ELSE parse_lines(parse_line(st, Head(ls)), Tail(ls))

\* the root items once the last submenu has been added
finish_items(st) ==
  IF st.current_submenu # None
    THEN Append(st.root_items,
                OpenSubmenu(st.current_submenu[1].name,
                            st.current_submenu[1].items))
    ELSE st.root_items

\* App::from_toon on a readable file: the fields of the App it returns
from_toon(content) ==
  LET st == parse_lines(ParseInit, lines(content))
  IN  [history |-> << >>,
       current_title |-> st.main_title,
       current_items |-> finish_items(st),
       state |-> Some(0)]

(***************************************************************************)
(* Navigation: the methods of App as functions of the App record           *)
(* [history, current_title, current_items, state], where state is the      *)
(* selected index of the ListState.  checks tells whether the build traps  *)
(* integer overflow (a debug build) or wraps (a release build).            *)
(***************************************************************************)
\* usize subtraction a - b
usize_sub(a, b) ==
  [overflow |-> a < b, value |-> (a - b) % (2^UsizeBits)]

\* next with the comparison against len instead of len - 1
next_past_end(a, checks) ==
  IF a.state # None THEN
    LET i == a.state[1]
    IN  [panic |-> FALSE,
         app |-> [a EXCEPT !.state =
                    Some(IF i >= Len(a.current_items) THEN 0 ELSE i + 1)]]
  ELSE [panic |-> FALSE, app |-> [a EXCEPT !.state = Some(0)]]

\* next with the saved level sharing the ListState of the current one
next_shared_state(a, checks) ==
  IF a.state # None THEN
    LET i == a.state[1]
        last == usize_sub(Len(a.current_items), 1)
        j == IF i >= last.value THEN 0 ELSE i + 1
    IN  IF last.overflow /\ checks THEN [panic |-> TRUE, app |-> a]
        ELSE [panic |-> FALSE,
              app |-> [a EXCEPT
                         !.state = Some(j),
                         !.history = [h \in 1..Len(a.history) |->
                                        <<a.history[h][1], a.history[h][2],
                                          Some(j)>>]]]
  ELSE [panic |-> FALSE, app |-> [a EXCEPT !.state = Some(0)]]

\* App::next
next(a, checks) ==
  IF a.state # None THEN
    LET i == a.state[1]
        last == usize_sub(Len(a.current_items), 1)
    IN  IF last.overflow /\ checks THEN [panic |-> TRUE, app |-> a]
        ELSE [panic |-> FALSE,
              app |-> [a EXCEPT !.state =
                         Some(IF i >= last.value THEN 0 ELSE i + 1)]]
  ELSE [panic |-> FALSE, app |-> [a EXCEPT !.state = Some(0)]]

\* App::previous
previous(a, checks) ==
  IF a.state # None THEN
    LET i == a.state[1]
        last == usize_sub(Len(a.current_items), 1)
    IN  IF i = 0 THEN
          IF last.overflow /\ checks THEN [panic |-> TRUE, app |-> a]
          ELSE [panic |-> FALSE, app |-> [a EXCEPT !.state = Some(last.value)]]
        ELSE [panic |-> FALSE, app |-> [a EXCEPT !.state = Some(i - 1)]]
  ELSE [panic |-> FALSE, app |-> [a EXCEPT !.state = Some(0)]]

Exit == <<"e","x","i","t">>

\* clean_cmd without the removal of the quotes
clean_cmd_quoted(cmd_str) == trim(cmd_str)

\* the command enter compares and runs: trimmed, surrounding quotes removed
clean_cmd(cmd_str) == trim_matches(trim(cmd_str), "\"")

\* enter pushing a fresh ListState instead of the clone of the current one
enter_fresh_state(a) ==
  IF a.state = None THEN [outcome |-> "false", app |-> a, cmd |-> << >>]
  ELSE
    LET index == a.state[1] IN
    IF index >= Len(a.current_items)
      THEN [outcome |-> "panic", app |-> a, cmd |-> << >>]
    ELSE
      LET item == a.current_items[index + 1] IN
      IF item.kind = "Execute" THEN
        IF clean_cmd(item.cmd) = Exit
          THEN [outcome |-> "true", app |-> a, cmd |-> << >>]
          ELSE [outcome |-> "execute", app |-> a, cmd |-> clean_cmd(item.cmd)]
      ELSE
        [outcome |-> "false",
         app |-> [history |-> Append(a.history,
                      <<a.current_title, a.current_items, Some(0)>>),
                  current_title |-> item.label,
                  current_items |-> item.sub,
                  state |-> Some(0)],
         cmd |-> << >>]

\* enter running cmd_str instead of clean_cmd
enter_raw_cmd(a) ==
  IF a.state = None THEN [outcome |-> "false", app |-> a, cmd |-> << >>]
  ELSE
    LET index == a.state[1] IN
    IF index >= Len(a.current_items)
      THEN [outcome |-> "panic", app |-> a, cmd |-> << >>]
    ELSE
      LET item == a.current_items[index + 1] IN
      IF item.kind = "Execute" THEN
        IF clean_cmd(item.cmd) = Exit
          THEN [outcome |-> "true", app |-> a, cmd |-> << >>]
          ELSE [outcome |-> "execute", app |-> a, cmd |-> item.cmd]
      ELSE
        [outcome |-> "false",
         app |-> [history |-> Append(a.history,
                      <<a.current_title, a.current_items, a.state>>),
                  current_title |-> item.label,
                  current_items |-> item.sub,
                  state |-> Some(0)],
         cmd |-> << >>]

\* enter keeping the items of the level it leaves
enter_keep_items(a) ==
  IF a.state = None THEN [outcome |-> "false", app |-> a, cmd |-> << >>]
  ELSE
    LET index == a.state[1] IN
    IF index >= Len(a.current_items)
      THEN [outcome |-> "panic", app |-> a, cmd |-> << >>]
    ELSE
      LET item == a.current_items[index + 1] IN
      IF item.kind = "Execute" THEN
        IF clean_cmd(item.cmd) = Exit
          THEN [outcome |-> "true", app |-> a, cmd |-> << >>]
          ELSE [outcome |-> "execute", app |-> a, cmd |-> clean_cmd(item.cmd)]
      ELSE
        [outcome |-> "false",
         app |-> [history |-> Append(a.history,
                      <<a.current_title, a.current_items, a.state>>),
                  current_title |-> item.label,
                  current_items |-> a.current_items,
                  state |-> Some(0)],
         cmd |-> << >>]

\* App::enter up to the call of execute_external_command.  outcome is
\* "true" / "false" for the value returned, "execute" when the command cmd
\* is handed to execute_external_command (enter returns false after it),
\* "panic" when the index is out of bounds.
enter(a) ==
  IF a.state = None THEN [outcome |-> "false", app |-> a, cmd |-> << >>]
  ELSE
    LET index == a.state[1] IN
    IF index >= Len(a.current_items)
      THEN [outcome |-> "panic", app |-> a, cmd |-> << >>]
    ELSE
      LET item == a.current_items[index + 1] IN
      IF item.kind = "Execute" THEN
        IF clean_cmd(item.cmd) = Exit
          THEN [outcome |-> "true", app |-> a, cmd |-> << >>]
          ELSE [outcome |-> "execute", app |-> a, cmd |-> clean_cmd(item.cmd)]
      ELSE
        [outcome |-> "false",
         app |-> [history |-> Append(a.history,
                      <<a.current_title, a.current_items, a.state>>),
                  current_title |-> item.label,
                  current_items |-> item.sub,
                  state |-> Some(0)],
         cmd |-> << >>]

\* back selecting the first item when there is no history
back_reset(a) ==
  IF a.history # << >> THEN
    LET top == a.history[Len(a.history)]
    IN  [history |-> SubSeq(a.history, 1, Len(a.history) - 1),
         current_title |-> top[1],
         current_items |-> top[2],
         state |-> top[3]]
  ELSE [a EXCEPT !.state = Some(0)]

\* back reading the last history entry without removing it
back_keep_history(a) ==
  IF a.history # << >> THEN
    LET top == a.history[Len(a.history)]
    IN  [history |-> a.history,
         current_title |-> top[1],
         current_items |-> top[2],
         state |-> top[3]]
  ELSE a

\* App::back
back(a) ==
  IF a.history # << >> THEN
    LET top == a.history[Len(a.history)]
    IN  [history |-> SubSeq(a.history, 1, Len(a.history) - 1),
         current_title |-> top[1],
         current_items |-> top[2],
         state |-> top[3]]
  ELSE a

(***************************************************************************)
(* The program: main, run_app and execute_external_command.                *)
(* Calls into the terminal library (raw mode, screen switch, draw, event   *)
(* read) are taken to succeed; spawning the shell may fail.                *)
(***************************************************************************)
VARIABLES
  file,            \* the menu file: [exists, readable, content]
  overflow_checks, \* TRUE for a build that traps integer overflow
  pc,              \* the statement the program is at
  app,             \* the App
  key,             \* the last key event handled by run_app
  before,          \* app as it was when that key event was read
  cmd,             \* the cmd argument of execute_external_command
  raw_mode,        \* terminal in raw mode
  alt_screen,      \* terminal on the alternate screen, mouse captured
  child,           \* the spawned shell: "none", "running", "exited"
  effects,         \* what was done to terminal and processes since that key
  shell_cmds,      \* the commands handed to sh -c since that key
  stderr,          \* something was reported on standard error
  exit_code        \* the exit code once the process has ended

vars == <<file, overflow_checks, pc, app, key, before, cmd, raw_mode,
          alt_screen, child, effects, shell_cmds, stderr, exit_code>>

Texts == {ExampleToon, EmptyToon, EmptySubToon, TwoSubsToon, SplitToon,
          IndentToon, TitlesToon, MalformedToon, LaterTitleToon}

NoApp ==
  [history |-> << >>, current_title |-> << >>, current_items |-> << >>,
   state |-> None]

Init ==
  /\ file \in [exists : BOOLEAN, readable : BOOLEAN, content : Texts]
  /\ file.readable => file.exists
  /\ overflow_checks \in BOOLEAN
  /\ pc = "main"
  /\ app = NoApp
  /\ key = "none"
  /\ before = NoApp
  /\ cmd = << >>
  /\ raw_mode = FALSE
  /\ alt_screen = FALSE
  /\ child = "none"
  /\ effects = << >>
  /\ shell_cmds = << >>
  /\ stderr = FALSE
  /\ exit_code = None

\* main: the menu file does not exist
MainNoFile ==
  /\ pc = "main"
  /\ ~file.exists
  /\ stderr' = TRUE
  /\ exit_code' = Some(1)
  /\ pc' = "exited"
  /\ UNCHANGED <<file, overflow_checks, app, key, before, cmd, raw_mode,
                 alt_screen, child, effects, shell_cmds>>

\* main going on with an empty App when the file cannot be read
MainReadError_ignored ==
  /\ pc = "main"
  /\ file.exists /\ ~file.readable
  /\ pc' = "setup"
  /\ UNCHANGED <<file, overflow_checks, app, key, before, cmd, raw_mode,
                 alt_screen, child, effects, shell_cmds, stderr, exit_code>>

\* main: from_toon fails to read the file and main returns the error
MainReadError ==
  /\ pc = "main"
  /\ file.exists /\ ~file.readable
  /\ stderr' = TRUE
  /\ exit_code' = Some(1)
  /\ pc' = "exited"
  /\ UNCHANGED <<file, overflow_checks, app, key, before, cmd, raw_mode,
                 alt_screen, child, effects, shell_cmds>>

\* main: from_toon builds the App
MainLoad ==
  /\ pc = "main"
  /\ file.exists /\ file.readable
  /\ app' = from_toon(file.content)
  /\ pc' = "setup"
  /\ UNCHANGED <<file, overflow_checks, key, before, cmd, raw_mode,
                 alt_screen, child, effects, shell_cmds, stderr, exit_code>>

\* main: terminal set up, run_app entered
MainSetup ==
  /\ pc = "setup"
  /\ raw_mode' = TRUE
  /\ alt_screen' = TRUE
  /\ pc' = "draw"
  /\ UNCHANGED <<file, overflow_checks, app, key, before, cmd, child,
                 effects, shell_cmds, stderr, exit_code>>

\* run_app: terminal.draw(ui); ui reads the title, the items and the history
Draw ==
  /\ pc = "draw"
  /\ effects' = Append(effects, "draw")
  /\ pc' = "read"
  /\ UNCHANGED <<file, overflow_checks, app, key, before, cmd, raw_mode,
                 alt_screen, child, shell_cmds, stderr, exit_code>>

\* run_app reads the key event k: what every key arm starts with
ReadKey(k) ==
  /\ pc = "read"
  /\ key' = k
  /\ before' = app
  /\ effects' = << >>
  /\ shell_cmds' = << >>

\* a panic: the process ends where it is, the terminal is left as it is
Panic ==
  /\ pc' = "panicked"
  /\ stderr' = TRUE
  /\ exit_code' = Some(101)

\* the q arm without the return
KeyQuit_ignored ==
  /\ ReadKey("q")
  /\ pc' = "draw"
  /\ UNCHANGED <<file, overflow_checks, app, cmd, raw_mode, alt_screen,
                 child, stderr, exit_code>>

\* KeyCode::Char('q')
KeyQuit ==
  /\ ReadKey("q")
  /\ pc' = "main_restore"
  /\ UNCHANGED <<file, overflow_checks, app, cmd, raw_mode, alt_screen,
                 child, stderr, exit_code>>

\* KeyCode::Down
KeyDown ==
  /\ ReadKey("Down")
  /\ LET r == next(app, overflow_checks)
     IN  /\ app' = r.app
         /\ IF r.panic THEN Panic
            ELSE pc' = "draw" /\ UNCHANGED <<stderr, exit_code>>
  /\ UNCHANGED <<file, overflow_checks, cmd, raw_mode, alt_screen, child>>

\* KeyCode::Up
KeyUp ==
  /\ ReadKey("Up")
  /\ LET r == previous(app, overflow_checks)
     IN  /\ app' = r.app
         /\ IF r.panic THEN Panic
            ELSE pc' = "draw" /\ UNCHANGED <<stderr, exit_code>>
  /\ UNCHANGED <<file, overflow_checks, cmd, raw_mode, alt_screen, child>>

\* KeyCode::Enter | KeyCode::Right
KeyEnter ==
  /\ \E k \in {"Enter", "Right"} : ReadKey(k)
  /\ LET r == enter(app)
     IN  /\ app' = r.app
         /\ cmd' = r.cmd
         /\ IF r.outcome = "panic" THEN Panic
            ELSE /\ pc' = CASE r.outcome = "true" -> "main_restore"
                            [] r.outcome = "execute" -> "exec_teardown"
                            [] OTHER -> "draw"
                 /\ UNCHANGED <<stderr, exit_code>>
  /\ UNCHANGED <<file, overflow_checks, raw_mode, alt_screen, child>>

\* KeyCode::Left | KeyCode::Esc
KeyBack ==
  /\ \E k \in {"Left", "Esc"} : ReadKey(k)
  /\ app' = back(app)
  /\ pc' = "draw"
  /\ UNCHANGED <<file, overflow_checks, cmd, raw_mode, alt_screen, child,
                 stderr, exit_code>>

\* any other key code
KeyOther ==
  /\ ReadKey("Other")
  /\ pc' = "draw"
  /\ UNCHANGED <<file, overflow_checks, app, cmd, raw_mode, alt_screen,
                 child, stderr, exit_code>>

\* execute_external_command leaving the screen but not raw mode
ExecTeardown_keep_raw ==
  /\ pc = "exec_teardown"
  /\ alt_screen' = FALSE
  /\ effects' = Append(effects, "teardown")
  /\ pc' = "exec_spawn"
  /\ UNCHANGED <<file, overflow_checks, app, key, before, cmd, raw_mode,
                 child, shell_cmds, stderr, exit_code>>

\* execute_external_command: raw mode off, alternate screen left
ExecTeardown ==
  /\ pc = "exec_teardown"
  /\ raw_mode' = FALSE
  /\ alt_screen' = FALSE
  /\ effects' = Append(effects, "teardown")
  /\ pc' = "exec_spawn"
  /\ UNCHANGED <<file, overflow_checks, app, key, before, cmd, child,
                 shell_cmds, stderr, exit_code>>

\* execute_external_command: sh -c cmd is spawned
ExecSpawn ==
  /\ pc = "exec_spawn"
  /\ shell_cmds' = Append(shell_cmds, cmd)
  /\ child' = "running"
  /\ effects' = Append(effects, "spawn")
  /\ pc' = "exec_wait"
  /\ UNCHANGED <<file, overflow_checks, app, key, before, cmd, raw_mode,
                 alt_screen, stderr, exit_code>>

\* execute_external_command: the spawn fails and expect("Fallo") panics
ExecSpawnFail ==
  /\ pc = "exec_spawn"
  /\ shell_cmds' = Append(shell_cmds, cmd)
  /\ effects' = Append(effects, "spawn_failed")
  /\ Panic
  /\ UNCHANGED <<file, overflow_checks, app, key, before, cmd, raw_mode,
                 alt_screen, child>>

\* execute_external_command: child.wait() returns
ExecWait ==
  /\ pc = "exec_wait"
  /\ child' = "exited"
  /\ effects' = Append(effects, "wait")
  /\ pc' = "exec_prompt"
  /\ UNCHANGED <<file, overflow_checks, app, key, before, cmd, raw_mode,
                 alt_screen, shell_cmds, stderr, exit_code>>

\* execute_external_command: the prompt is printed and a line is read
ExecPrompt ==
  /\ pc = "exec_prompt"
  /\ effects' = Append(effects, "prompt")
  /\ pc' = "exec_restore"
  /\ UNCHANGED <<file, overflow_checks, app, key, before, cmd, raw_mode,
                 alt_screen, child, shell_cmds, stderr, exit_code>>

\* execute_external_command: raw mode on, alternate screen entered
ExecRestore ==
  /\ pc = "exec_restore"
  /\ raw_mode' = TRUE
  /\ alt_screen' = TRUE
  /\ effects' = Append(effects, "restore")
  /\ pc' = "exec_clear"
  /\ UNCHANGED <<file, overflow_checks, app, key, before, cmd, child,
                 shell_cmds, stderr, exit_code>>

\* execute_external_command: terminal.clear(); enter returns false
ExecClear ==
  /\ pc = "exec_clear"
  /\ effects' = Append(effects, "clear")
  /\ child' = "none"
  /\ cmd' = << >>
  /\ pc' = "draw"
  /\ UNCHANGED <<file, overflow_checks, app, key, before, raw_mode,
                 alt_screen, shell_cmds, stderr, exit_code>>

\* main: run_app has returned; terminal restored, main returns Ok
MainRestore ==
  /\ pc = "main_restore"
  /\ raw_mode' = FALSE
  /\ alt_screen' = FALSE
  /\ effects' = Append(effects, "main_restore")
  /\ exit_code' = Some(0)
  /\ pc' = "exited"
  /\ UNCHANGED <<file, overflow_checks, app, key, before, cmd, child,
                 shell_cmds, stderr>>

Next ==
  \/ MainNoFile \/ MainReadError \/ MainLoad \/ MainSetup \/ MainRestore
  \/ Draw
  \/ KeyQuit \/ KeyDown \/ KeyUp \/ KeyEnter \/ KeyBack \/ KeyOther
  \/ ExecTeardown \/ ExecSpawn \/ ExecSpawnFail \/ ExecWait \/ ExecPrompt
  \/ ExecRestore \/ ExecClear

Spec == Init /\ [][Next]_vars

(***************************************************************************)
(* Properties.                                                             *)
(***************************************************************************)
\* an App has been built from the menu file
Loaded == file.exists /\ file.readable /\ pc # "main"

\* the selected index of a addresses an item
HasSelected(a) == a.state # None /\ a.state[1] < Len(a.current_items)

SelectedItem(a) == a.current_items[a.state[1] + 1]

\* the command string c, trimmed and without surrounding quotes
Normalized(c) ==
  LET ws == {i \in 1..Len(c) : c[i] \notin {" ", "\t", "\n", "\r", "\f"}}
      t == IF ws = {} THEN << >> ELSE SubSeq(c, SetMin(ws), SetMax(ws))
      q == {i \in 1..Len(t) : t[i] # "\""}
  IN  IF q = {} THEN << >> ELSE SubSeq(t, SetMin(q), SetMax(q))

Mentions(log, e) == \E i \in 1..Len(log) : log[i] = e

IsPrefix(s, t) == Len(s) <= Len(t) /\ s = SubSeq(t, 1, Len(s))

\* C1: once the menu is parsed, in every state the selected index of the
\* current level is None exactly when the level has no items, and is
\* otherwise an index below the number of items.
C1_SelectedValid ==
  Loaded =>
    /\ (app.state = None) <=> (app.current_items = << >>)
    /\ app.state # None => app.state[1] < Len(app.current_items)

\* C2: when the selected item is an OpenSubmenu, the state activate() leaves
\* is one from which ascend() gives back the App as it was before the
\* descent (title, items, selected index and history), and an ascend() that
\* has acted has put back exactly the level on top of the history.
C2_RoundTrip ==
  /\ (/\ pc = "draw" /\ key \in {"Enter", "Right"}
      /\ HasSelected(before)
      /\ SelectedItem(before).kind = "OpenSubmenu")
     => /\ app # before
        /\ back(app) = before
  /\ (pc = "draw" /\ key \in {"Left", "Esc"} /\ before.history # << >>)
     => LET top == before.history[Len(before.history)]
        IN  /\ <<app.current_title, app.current_items, app.state>> = top
            /\ before.history = Append(app.history, top)

\* a descent from a level whose selection was not the first item has been
\* undone by ascend()
C2_Witness ==
  /\ pc = "draw" /\ key \in {"Left", "Esc"}
  /\ before.history # << >>
  /\ HasSelected(app) /\ app.state # Some(0)
  /\ SelectedItem(app).kind = "OpenSubmenu"
  /\ SelectedItem(app).label = before.current_title
  /\ SelectedItem(app).sub = before.current_items
  /\ before.state = Some(0)
  /\ app.history = << >>

RECURSIVE next_times(_, _)
next_times(a, n) ==
  IF n = 0 THEN a ELSE next_times(next(a, overflow_checks).app, n - 1)

\* C3: on a level with items and a valid selected index i, move_next() has
\* moved the selection to (i+1) mod len and move_previous() to (i-1) mod len,
\* and len applications of move_next() lead back to i.
C3_Cyclic ==
  /\ (Loaded /\ HasSelected(app))
     => next_times(app, Len(app.current_items)).state = app.state
  /\ (key = "Down" /\ HasSelected(before))
     => /\ pc \in {"draw", "read"}
        /\ app = [before EXCEPT !.state =
                    Some((before.state[1] + 1) % Len(before.current_items))]
  /\ (key = "Up" /\ HasSelected(before))
     => /\ pc \in {"draw", "read"}
        /\ app = [before EXCEPT !.state =
                    Some((before.state[1] - 1) % Len(before.current_items))]

\* move_next() has wrapped from the last item of a level of several items
C3_Witness ==
  /\ pc = "draw" /\ key = "Down"
  /\ Len(app.current_items) > 1
  /\ before.state = Some(Len(app.current_items) - 1)
  /\ app.state = Some(0)

\* the items as the claim writes them: an Execute item by its command, an
\* OpenSubmenu item by its label and the commands of its children
Shape(items) ==
  [i \in 1..Len(items) |->
     IF items[i].kind = "Execute" THEN <<"Execute", items[i].cmd>>
     ELSE <<"OpenSubmenu", items[i].label,
            [j \in 1..Len(items[i].sub) |->
               <<"Execute", items[i].sub[j].cmd>>]>>]

\* C4: the example text parses to title "main" and to the root items
\* [OpenSubmenu("Tools", [Execute("echo build"), Execute("echo clean")]),
\*  Execute("exit")], the submenu before the root item that follows its block.
C4_ExampleParse ==
  (pc = "setup" /\ file.content = ExampleToon)
  => /\ app.current_title = <<"m","a","i","n">>
     /\ Shape(app.current_items) =
          << <<"OpenSubmenu", <<"T","o","o","l","s">>,
               << <<"Execute", <<"e","c","h","o"," ","b","u","i","l","d">> >>,
                  <<"Execute", <<"e","c","h","o"," ","c","l","e","a","n">> >> >> >>,
             <<"Execute", <<"e","x","i","t">> >> >>

\* the activation was of an Execute item whose normalized command is exit
ExitActivated ==
  /\ key \in {"Enter", "Right"}
  /\ HasSelected(before)
  /\ SelectedItem(before).kind = "Execute"
  /\ Normalized(SelectedItem(before).cmd) = <<"e","x","i","t">>

\* C5: activating an Execute item whose normalized command is exit ends the
\* event loop; from that activation on no command is handed to the shell, no
\* child process exists and execute_external_command never tears the
\* terminal down.
C5_ExitQuits ==
  ExitActivated =>
    /\ pc \in {"main_restore", "exited"}
    /\ pc = "exited" => exit_code = Some(0)
    /\ shell_cmds = << >>
    /\ cmd = << >>
    /\ child = "none"
    /\ ~Mentions(effects, "teardown")
    /\ ~Mentions(effects, "spawn")
    /\ ~Mentions(effects, "spawn_failed")

\* the program has ended after an exit item inside a submenu was activated
C5_Witness ==
  /\ ExitActivated
  /\ before.history # << >>
  /\ pc = "exited"

\* the activation was of an Execute item whose normalized command is not exit
CommandActivated ==
  /\ key \in {"Enter", "Right"}
  /\ HasSelected(before)
  /\ SelectedItem(before).kind = "Execute"
  /\ Normalized(SelectedItem(before).cmd) # <<"e","x","i","t">>

BeforeSpawn == {"exec_teardown", "exec_spawn"}

AfterSpawn ==
  {"exec_wait", "exec_prompt", "exec_restore", "exec_clear", "draw", "read",
   "panicked"}

\* what C6 says of the activation of a command item, c being the command
\* string the shell is to be given
RunsCommand(c) ==
  /\ app = before
  /\ pc \in BeforeSpawn \cup AfterSpawn
  /\ pc \in BeforeSpawn => shell_cmds = << >>
  /\ pc \in AfterSpawn => shell_cmds = <<c>>
  /\ pc \in {"draw", "read"} =>
       Cardinality({i \in 1..Len(effects) : effects[i] = "spawn"}) = 1

\* C6 as stated: activating an Execute item whose normalized command is not
\* exit hands that item's command string to the shell exactly once, does not
\* quit and leaves the navigation state unchanged.
C6_RunsItemCommand ==
  CommandActivated => RunsCommand(SelectedItem(before).cmd)

\* C6 as amended: the command handed to the shell is the item's command
\* string trimmed and with its surrounding quotes removed; it is handed over
\* exactly once, the Quit path is not taken and the navigation state is
\* unchanged.
C6_RunsNormalizedCommand ==
  CommandActivated => RunsCommand(Normalized(SelectedItem(before).cmd))

\* a quoted command has run and control is back in the event loop
C6_Witness ==
  /\ CommandActivated
  /\ pc = "draw"
  /\ SelectedItem(before).cmd # Normalized(SelectedItem(before).cmd)
  /\ shell_cmds = <<Normalized(SelectedItem(before).cmd)>>
  /\ Mentions(effects, "spawn")

\* C7: ascend() with an empty history changes nothing (title, items,
\* selected index, history), raises no error and does not end the session.
C7_BackAtRoot ==
  (key \in {"Left", "Esc"} /\ before.history = << >>)
  => /\ app = before
     /\ pc \in {"draw", "read"}
     /\ exit_code = None
     /\ ~stderr

\* ascend() has been handled at the root with the second item selected
C7_Witness ==
  /\ key = "Esc" /\ pc = "draw"
  /\ before.history = << >>
  /\ before.state = Some(1)
  /\ app = before

\* C8: move_next() and move_previous() on a level without items change no
\* field of the state and raise no error or arithmetic fault.
C8_EmptyNoOp ==
  (key \in {"Down", "Up"} /\ Loaded /\ before.current_items = << >>)
  => /\ app = before
     /\ pc \in {"draw", "read"}
     /\ exit_code = None

RunSeq == <<"teardown", "spawn", "wait", "prompt", "restore", "clear", "draw">>

\* C9: for every command run the terminal is torn down, the command is
\* spawned, awaited, the terminal is restored and cleared for a full redraw,
\* in this order and with no key event handled in between; the child never
\* runs while the terminal is in raw mode, and the next key event is read
\* only after the restore and the redraw.
C9_RunOrder ==
  /\ child = "running" => ~raw_mode /\ ~alt_screen
  /\ pc \in {"exec_spawn", "exec_wait", "exec_prompt"} => ~raw_mode
  /\ (\E e \in {"teardown", "spawn", "wait", "prompt", "restore", "clear"} :
        Mentions(effects, e))
     => \/ IsPrefix(effects, RunSeq)
        \/ effects = <<"teardown", "spawn_failed">>
  /\ (pc = "read" /\ cmd = << >> /\ CommandActivated)
     => effects = RunSeq /\ raw_mode /\ alt_screen /\ child = "none"
  /\ pc = "read" => cmd = << >>

\* a command has run and the next key event is about to be read
C9_Witness ==
  /\ pc = "read"
  /\ CommandActivated
  /\ effects = RunSeq
  /\ raw_mode

\* C10: when spawning the command fails, the program does not abort; the
\* terminal is restored and control returns to the menu with the
\* navigation state unchanged.
C10_SpawnFailureRecovers ==
  Mentions(effects, "spawn_failed")
  => /\ pc \in {"exec_restore", "exec_clear", "draw", "read"}
     /\ exit_code = None
     /\ app = before
     /\ pc \in {"draw", "read"} => raw_mode

QuitRequested == key = "q" \/ ExitActivated

\* C12: the quit key, at any level and selection, and the activation of an
\* exit item end the session: no key event is handled after it, no command
\* is run, and the program ends with the terminal out of raw mode and off
\* the alternate screen and with exit code 0.
C12_QuitEnds ==
  /\ QuitRequested
     => /\ pc \in {"main_restore", "exited"}
        /\ app = before
        /\ shell_cmds = << >> /\ cmd = << >> /\ child = "none"
        /\ pc = "main_restore" => exit_code = None
        /\ pc = "exited" =>
             ~raw_mode /\ ~alt_screen /\ exit_code = Some(0)
  /\ (Loaded /\ pc \in {"main_restore", "exited"}) => QuitRequested

\* the program has ended on the quit key pressed inside a submenu with the
\* second item selected
C12_Witness ==
  /\ key = "q"
  /\ before.history # << >>
  /\ before.state = Some(1)
  /\ pc = "exited"
  /\ exit_code = Some(0)

\* C13: the parsed items are never changed during the session: with an empty
\* history the current title and items are the parsed title and root items;
\* inside a submenu the current title and items are the label and the
\* children of a root submenu item, and the history holds the parsed root
\* level with that item selected.
C13_TreeReadOnly ==
  Loaded =>
    LET parsed == from_toon(file.content) IN
    /\ app.history = << >> =>
         /\ app.current_title = parsed.current_title
         /\ app.current_items = parsed.current_items
    /\ app.history # << >> =>
         \E i \in 1..Len(parsed.current_items) :
           /\ parsed.current_items[i].kind = "OpenSubmenu"
           /\ app.current_title = parsed.current_items[i].label
           /\ app.current_items = parsed.current_items[i].sub
           /\ app.history = << <<parsed.current_title, parsed.current_items,
                                 Some(i - 1)>> >>

\* the selection has moved to the second item inside a submenu
C13_Witness ==
  /\ pc = "draw" /\ key = "Down"
  /\ app.history # << >>
  /\ Len(app.current_items) = 2
  /\ app.state = Some(1)

AllExecute(items) == \A i \in 1..Len(items) : items[i].kind = "Execute"

Indent(l) == Len(l) - Len(trim_start(l))

IsTitleLine(l) == ends_with(trim(l), ":") /\ Indent(l) = 0

IsSubmenuHeader(l) == ends_with(trim(l), ":") /\ Indent(l) > 0

IsItemLine(l) == ~ends_with(trim(l), ":") /\ contains(trim(l), "[")

\* the label a submenu header line gives
HeaderName(l) == trim_matches(trim_matches(trim(l), ":"), "\"")

\* the items of the item lines ls[from..to] that are indented by more than 2
RECURSIVE DeepItems(_, _, _)
DeepItems(ls, from, to) ==
  IF from > to THEN << >>
  ELSE (IF IsItemLine(ls[from]) /\ Indent(ls[from]) > 2
          THEN <<parse_item(trim(ls[from]))>> ELSE << >>)
       \o DeepItems(ls, from + 1, to)

\* the last line of the block the submenu header ls[k] opens
BlockEnd(ls, k) ==
  LET later == {j \in (k + 1)..Len(ls) : IsSubmenuHeader(ls[j])}
  IN  IF later = {} THEN Len(ls) ELSE SetMin(later) - 1

\* C15: every submenu header line of the text yields one OpenSubmenu item
\* among the root items, with the header's label and the items accumulated
\* while its block was open; a new block does not discard the one before.
C15_EverySubmenuKept ==
  pc = "setup" =>
    LET ls == lines(file.content)
        headers == {k \in 1..Len(ls) : IsSubmenuHeader(ls[k])}
        subs == {i \in 1..Len(app.current_items) :
                   app.current_items[i].kind = "OpenSubmenu"}
    IN  /\ Cardinality(subs) = Cardinality(headers)
        /\ \A k \in headers :
             \E i \in subs :
               /\ app.current_items[i].label = HeaderName(ls[k])
               /\ app.current_items[i].sub =
                    DeepItems(ls, k + 1, BlockEnd(ls, k))

\* the text after the last "]:" of s
AfterLast(s) ==
  LET at == {i \in 1..(Len(s) - 1) : s[i] = "]" /\ s[i + 1] = ":"}
  IN  SubSeq(s, SetMax(at) + 2, Len(s))

\* the text before the first "[" of s
BeforeBracket(s) ==
  SubSeq(s, 1, SetMin({i \in 1..Len(s) : s[i] = "["}) - 1)

HasSplit(s) == \E i \in 1..(Len(s) - 1) : s[i] = "]" /\ s[i + 1] = ":"

\* C16: for an item line the command is the trimmed text after the last
\* "]:" of the line and the label is the text before the first "[" without
\* its quotes, also when the line has more than one "]:".
C16_CommandAfterLastSplit ==
  pc = "setup" =>
    /\ \A l \in {lines(file.content)[k] : k \in 1..Len(lines(file.content))} :
         (IsItemLine(l) /\ HasSplit(l)) =>
           /\ parse_item(trim(l)).cmd = trim(AfterLast(l))
           /\ parse_item(trim(l)).label =
                trim_matches(BeforeBracket(trim(l)), "\"")
    /\ file.content = SplitToon =>
         /\ Len(app.current_items) = 1
         /\ app.current_items[1].label = <<"k">>
         /\ app.current_items[1].cmd = <<"f">>

\* the locals of from_toon after the first k lines of ls
ParsedUpTo(ls, k) == parse_lines(ParseInit, SubSeq(ls, 1, k))

\* C17: an item line indented by more than 2 is appended to the open
\* submenu and changes nothing when no submenu is open; an item line
\* indented by at most 2 is appended to the root items and leaves the open
\* submenu as it is, so that later deeper items still go to it.
C17_IndentRouting ==
  pc = "setup" =>
    LET ls == lines(file.content) IN
    /\ \A k \in 1..Len(ls) :
         IsItemLine(ls[k]) =>
           LET st == ParsedUpTo(ls, k - 1)
               st2 == ParsedUpTo(ls, k)
               item == parse_item(trim(ls[k]))
           IN  IF Indent(ls[k]) > 2 THEN
                 IF st.current_submenu = None THEN st2 = st
                 ELSE /\ st2.root_items = st.root_items
                      /\ st2.current_submenu =
                           Some([name |-> st.current_submenu[1].name,
                                 items |-> Append(st.current_submenu[1].items,
                                                  item)])
               ELSE /\ st2.root_items = Append(st.root_items, item)
                    /\ st2.current_submenu = st.current_submenu
    /\ file.content = IndentToon =>
         app.current_items =
           <<Execute(<<"r">>, <<"y">>),
             OpenSubmenu(<<"S">>, <<Execute(<<"c">>, <<"e","x","i","t">>)>>)>>

\* the text with a deep item before any submenu, a root item inside the
\* block and a deep item after it has been parsed
C17_Witness ==
  /\ pc = "setup"
  /\ file.content = IndentToon
  /\ Len(app.current_items) = 2
  /\ Len(app.current_items[2].sub) = 1

\* C18: the first zero-indentation line ending with ":" sets the title;
\* every later such line changes nothing (title, root items, open submenu),
\* whatever it contains.
C18_FirstTitleOnly ==
  pc = "setup" =>
    LET ls == lines(file.content)
        titles == {k \in 1..Len(ls) : IsTitleLine(ls[k])}
    IN  /\ \A k \in titles :
             IF k = SetMin(titles)
               THEN ParsedUpTo(ls, k) =
                      [ParsedUpTo(ls, k - 1) EXCEPT
                         !.main_title = HeaderName(ls[k]),
                         !.first_key_found = TRUE]
               ELSE ParsedUpTo(ls, k) = ParsedUpTo(ls, k - 1)
        /\ app.current_title =
             IF titles = {} THEN DefaultTitle
             ELSE HeaderName(ls[SetMin(titles)])
        /\ file.content = LaterTitleToon =>
             /\ app.current_title = <<"a">>
             /\ Shape(app.current_items) =
                  << <<"OpenSubmenu", <<"S">>,
                       << <<"Execute", <<"l","s">> >>,
                          <<"Execute", <<"p","w","d">> >> >> >> >>

\* the text with two later top-level keys inside a submenu block has been
\* parsed
C18_Witness ==
  /\ pc = "setup"
  /\ file.content = LaterTitleToon
  /\ app.current_title = <<"a">>
  /\ Len(app.current_items) = 1

\* C19: the level saved in the history is a copy: inside a submenu,
\* move_next(), move_previous() and activations leave the history as it is,
\* the saved level is the parsed root level with the entered submenu
\* selected, and ascend() puts back its title, items and selected index.
C19_HistoryIndependent ==
  /\ (before.history # << >> /\ key \in {"Down", "Up", "Enter", "Right"})
     => app.history = before.history
  /\ (Loaded /\ app.history # << >>)
     => LET parsed == from_toon(file.content)
            saved == app.history[Len(app.history)]
        IN  /\ saved[1] = parsed.current_title
            /\ saved[2] = parsed.current_items
            /\ saved[3] # None /\ saved[3][1] < Len(saved[2])
            /\ saved[2][saved[3][1] + 1].label = app.current_title
  /\ (before.history # << >> /\ key \in {"Left", "Esc"})
     => /\ pc \in {"draw", "read"}
        /\ <<app.current_title, app.current_items, app.state>> =
             before.history[Len(before.history)]

\* ascend() has been handled after the selection had moved inside the
\* submenu, and the root has the selection it had before the descent
C19_Witness ==
  /\ pc = "draw" /\ key \in {"Left", "Esc"}
  /\ before.history # << >>
  /\ before.state = Some(1)
  /\ app.history = << >>
  /\ app.state = Some(0)

\* C20: no key press faults: move_next() and move_previous() never compute
\* len(items) - 1 on an empty item list, activate() never reads an item at
\* an index outside the list, and the program never panics while handling
\* a key.
C20_NoKeyFault ==
  /\ (key = "Down" /\ before.state # None)
     => Len(before.current_items) >= 1
  /\ (key = "Up" /\ before.state = Some(0))
     => Len(before.current_items) >= 1
  /\ (key \in {"Enter", "Right"} /\ before.state # None)
     => before.state[1] < Len(before.current_items)
  /\ pc = "panicked" => Mentions(effects, "spawn_failed")

====
